---- MODULE Spec2Model ----
(***************************************************************************)
(* Model of the spatial-text parsing engine of src/app.py                  *)
(* (class VolleyballSheetParser) and of the script run that drives it.     *)
(*                                                                         *)
(* A token is a record [text, x, y].  Coordinates are integers.  A text is *)
(* a string drawn from a small vocabulary; every regular expression and    *)
(* substring test of the source is tabulated over that vocabulary (the     *)
(* sets below), and int()/str.isdigit() are modelled by what they do on    *)
(* it: "²" is a digit for str.isdigit() and makes int() raise ValueError.  *)
(***************************************************************************)
EXTENDS Integers, Sequences, FiniteSets, TLC

VARIABLES all_items, pc, metadata, anchors, sets_data, runs, last

vars == <<all_items, pc, metadata, anchors, sets_data, runs, last>>

(***************************************************************************)
(* Bounds of the model.                                                    *)
(***************************************************************************)
MaxExtra == 2
MaxRuns == 1

(***************************************************************************)
(* Program constants.                                                      *)
(***************************************************************************)
BoxTop == 60
BoxBottom == 380
PageDivider == 300
HomeMargin == 5
AwayMargin == 10
AwayWidth == 500
LineTolerance == 5
FormationOffset == 15
BucketSize == 5
BucketMin == 5
BucketMax == 7
HeaderFar == 40
HeaderNear == 5
MaxStarters == 6
MaxPoint == 40
FooterY == 200
FooterX == 600
MinSetScore == 10
MinFallbackTotal == 10
DecidingSet == 5
DecidingAwayLimit == 20

None == "None"

\* an absent header_y or regex match, and the metadata before a parser exists
Absent == <<>>

(***************************************************************************)
(* Texts: str.isdigit(), int(), and the regular expressions.               *)
(***************************************************************************)
\* the numerals of the vocabulary: one beyond the cutoff of a rally score
MaxNum == MaxPoint + 1

NumTexts == {ToString(n) : n \in 0..MaxNum}

IntOfText == [t \in NumTexts |-> CHOOSE n \in 0..MaxNum : ToString(n) = t]

\* str.isdigit(): true of the decimal texts and of the superscript digit
IsDigit(t) == t \in NumTexts \cup {"²"}

\* int(t) raises ValueError on a text that isdigit() accepts but int() does not
IntRaises(t) == t \notin NumTexts

int(t) == IntOfText[t]

\* "Début" in text
ContainsDebut(t) == t \in {"Début: 14:00", "Début 15h30", "Début"}

\* re.search(r'(\d{2}[:h]\d{2})', text)
HasTime(t) == t \in {"Début: 14:00", "Début 15h30", "14:00"}

\* re.match(r'^(I|II|III|IV|V|VI)$', text.strip())
IsRoman(t) == t \in {"I", "II", "III", "IV", "V", "VI"}

\* "Formation" in text
ContainsFormation(t) == t \in {"Formation", "Formation:"}

\* re.match(r'^[1-6]$', txt)
IsRotationIndex(t) == t \in {"1", "2", "3", "4", "5", "6"}

\* the text starts a match of  Vainqueur[:\s]+  once joined with " "
ContainsVainqueur(t) == t \in {"Vainqueur:"}

\* the text matches  \d\s?/\s?\d
IsSetFraction(t) == t \in {"3/0", "3/1", "3/2"}

\* "LESCAR" in text
ContainsLescar(t) == t \in {"LESCAR"}

Tok(t, x, y) == [text |-> t, x |-> x, y |-> y]

Abs(n) == IF n < 0 THEN -n ELSE n

(***************************************************************************)
(* list.sort(key=...): Python's sort is stable.  Leq names the key.        *)
(***************************************************************************)
Leq(key, a, b) ==
  CASE key = "-y,x" -> (a.y > b.y) \/ (a.y = b.y /\ a.x <= b.x)
    [] key = "x"    -> a.x <= b.x
    [] key = "-y"   -> a.y >= b.y

\* e goes behind every element that is not greater than it
Insert(key, s, e) ==
  LET later == {i \in 1..Len(s) : ~Leq(key, s[i], e)}
      p == IF later = {} THEN Len(s) + 1
           ELSE CHOOSE i \in later : \A j \in later : i <= j
  IN  SubSeq(s, 1, p - 1) \o <<e>> \o SubSeq(s, p, Len(s))

RECURSIVE SortFrom(_, _, _, _)
SortFrom(key, s, i, acc) ==
  IF i > Len(s) THEN acc
  ELSE SortFrom(key, s, i + 1, Insert(key, acc, s[i]))

Sort(key, s) == SortFrom(key, s, 1, <<>>)

(***************************************************************************)
(* items_to_lines.  The argument list is sorted in place: the result       *)
(* carries the list as the call leaves it, and the lines.                  *)
(***************************************************************************)
\* last_y following every token: each y compared with the one before it
RECURSIVE GroupLines_Previous(_, _, _, _, _)
GroupLines_Previous(items, i, last_y, current, lines) ==
  IF i > Len(items)
  THEN IF current # <<>> THEN Append(lines, current) ELSE lines
  ELSE IF Abs(items[i].y - last_y) > LineTolerance
       THEN GroupLines_Previous(items, i + 1, items[i].y, <<items[i]>>,
                                Append(lines, current))
       ELSE GroupLines_Previous(items, i + 1, items[i].y,
                                Append(current, items[i]), lines)

RECURSIVE GroupLines(_, _, _, _, _)
GroupLines(items, i, last_y, current, lines) ==
  IF i > Len(items)
  THEN IF current # <<>> THEN Append(lines, current) ELSE lines
  ELSE IF Abs(items[i].y - last_y) > LineTolerance
       THEN GroupLines(items, i + 1, items[i].y, <<items[i]>>,
                       Append(lines, current))
       ELSE GroupLines(items, i + 1, last_y, Append(current, items[i]), lines)

items_to_lines(items) ==
  IF items = <<>> THEN [items |-> items, lines |-> <<>>]
  ELSE LET sorted == Sort("-y,x", items)
       IN  [items |-> sorted,
            lines |-> GroupLines(sorted, 1, sorted[1].y, <<>>, <<>>)]

(***************************************************************************)
(* Formatting and reading back a score "H-A".                              *)
(***************************************************************************)
FormatScore(h, a) == ToString(h) \o "-" \o ToString(a)

\* int(final_score.split('-')[1])
AwayPart(score) ==
  CHOOSE a \in 0..MaxNum : score \in {FormatScore(h, a) : h \in 0..MaxNum}

(***************************************************************************)
(* parse_match_summary                                                     *)
(***************************************************************************)
Texts(items) == [i \in 1..Len(items) |-> items[i].text]

\* The winner is kept as the words that " ".join() separates by one blank.
\* re.search finds the leftmost "Vainqueur"; [:\s]+ first takes the blank
\* behind it, so the lazy group ends before the first set fraction that
\* follows a later blank, and only failing that (on backtracking) is the
\* group empty and the fraction the very next token.
FirstIn(S) == CHOOSE i \in S : \A j \in S : i <= j

WinnerMatch(items) ==
  LET vs == {i \in 1..Len(items) : ContainsVainqueur(items[i].text)}
  IN  IF vs = {} THEN Absent
      ELSE LET v == FirstIn(vs)
               fs == {i \in (v + 1)..Len(items) : IsSetFraction(items[i].text)}
           IN  IF fs = {} THEN Absent
               ELSE LET f == IF fs \ {v + 1} # {} THEN FirstIn(fs \ {v + 1})
                             ELSE v + 1
                    IN  [winner |-> SubSeq(Texts(items), v + 1, f - 1),
                         match_score |-> items[f].text]

InFooter(i) == i.y < FooterY /\ i.x < FooterX

FooterItems(items) == SelectSeq(items, InFooter)

IsScoreNum(t) == IsDigit(t.text) /\ int(t.text) <= MaxPoint

\* the largest and the smallest number of the line, not the first and last
LineScore_LargestSmallest(line) ==
  LET s == SelectSeq(line, LAMBDA t : IsDigit(t.text) /\ int(t.text) <= MaxPoint)
      ns == {int(s[i].text) : i \in 1..Len(s)}
      hi == CHOOSE m \in ns : \A n \in ns : n <= m
      lo == CHOOSE m \in ns : \A n \in ns : m <= n
  IN  IF Len(s) >= 2
      THEN IF hi >= MinSetScore THEN <<FormatScore(hi, lo)>> ELSE <<>>
      ELSE <<>>

\* nums of one footer line, the line sorted by x
LineNums(line) ==
  LET s == SelectSeq(Sort("x", line), IsScoreNum)
  IN  [i \in 1..Len(s) |-> int(s[i].text)]

LineScore(line) ==
  LET nums == LineNums(line)
  IN  IF Len(nums) >= 2
      THEN LET s1 == nums[1]
               s2 == nums[Len(nums)]
           IN  IF s1 >= MinSetScore \/ s2 >= MinSetScore
               THEN <<FormatScore(s1, s2)>> ELSE <<>>
      ELSE <<>>

RECURSIVE SetScores(_, _)
SetScores(lines, i) ==
  IF i > Len(lines) THEN <<>>
  ELSE LineScore(lines[i]) \o SetScores(lines, i + 1)

\* int() is applied to every isdigit() text of every footer line
SummaryRaises(footer) == \E i \in 1..Len(footer) :
  IsDigit(footer[i].text) /\ IntRaises(footer[i].text)

\* self.all_items itself handed to items_to_lines, and so sorted in place
parse_match_summary_InPlace(items) ==
  LET m == WinnerMatch(items)
      r == items_to_lines(items)
      footer_items == FooterItems(r.items)
  IN  [raises |-> SummaryRaises(footer_items),
       all_items |-> r.items,
       meta |-> [winner |-> IF m = Absent THEN <<"Inconnu">> ELSE m.winner,
                 match_score |-> IF m = Absent THEN "0/0" ELSE m.match_score,
                 setScores |-> IF SummaryRaises(footer_items) THEN <<>>
                               ELSE SetScores(items_to_lines(footer_items).lines, 1)]]

\* footer_items is a new list: sorting it leaves self.all_items as it was
parse_match_summary(items) ==
  LET m == WinnerMatch(items)
      footer_items == FooterItems(items)
      r == items_to_lines(footer_items)
  IN  [raises |-> SummaryRaises(footer_items),
       all_items |-> items,
       meta |-> [winner |-> IF m = Absent THEN <<"Inconnu">> ELSE m.winner,
                 match_score |-> IF m = Absent THEN "0/0" ELSE m.match_score,
                 setScores |-> IF SummaryRaises(footer_items) THEN <<>>
                               ELSE SetScores(r.lines, 1)]]

(***************************************************************************)
(* extract_starters_strict                                                 *)
(***************************************************************************)
RECURSIVE Flatten(_, _)
Flatten(lines, i) ==
  IF i > Len(lines) THEN <<>> ELSE lines[i] \o Flatten(lines, i + 1)

\* round(y / 5) * 5 on an integer y (y / 5 is never half-way)
Bucket(y) == ((2 * y + BucketSize) \div (2 * BucketSize)) * BucketSize

IsNumeric(i) == IsDigit(i.text)

AnyIntRaises(s) == \E i \in 1..Len(s) : IntRaises(s[i].text)

Ints(s) == [i \in 1..Len(s) |-> int(s[i].text)]

Take(s, n) == SubSeq(s, 1, IF Len(s) < n THEN Len(s) ELSE n)

\* <<y>> for the first token of all_flat that satisfies the test, or Absent
FirstRomanY(all_flat) ==
  LET hs == {i \in 1..Len(all_flat) : IsRoman(all_flat[i].text)}
  IN  IF hs = {} THEN Absent
      ELSE <<all_flat[CHOOSE i \in hs : \A j \in hs : i <= j].y>>

FirstFormationY(all_flat) ==
  LET hs == {i \in 1..Len(all_flat) : ContainsFormation(all_flat[i].text)}
  IN  IF hs = {} THEN Absent
      ELSE <<all_flat[CHOOSE i \in hs : \A j \in hs : i <= j].y - FormationOffset>>

\* the accepted row left in the order of raw_items, not sorted by x
BlindRow_Unsorted(raw_items) ==
  LET nums == SelectSeq(raw_items, LAMBDA i : IsDigit(i.text))
      group(y) == SelectSeq(nums, LAMBDA i : Bucket(i.y) = y)
      ok == {y \in {Bucket(nums[k].y) : k \in 1..Len(nums)} :
               BucketMin <= Len(group(y)) /\ Len(group(y)) <= BucketMax}
  IN  IF ok = {} THEN <<>>
      ELSE Take(group(CHOOSE y \in ok : \A z \in ok : z <= y), MaxStarters)

\* tier 3: y_groups in the order of raw_items, the groups scanned top-down
BlindRow(raw_items) ==
  LET nums == SelectSeq(raw_items, IsNumeric)
      group(y) == SelectSeq(nums, LAMBDA i : Bucket(i.y) = y)
      ok == {y \in {Bucket(nums[k].y) : k \in 1..Len(nums)} :
               BucketMin <= Len(group(y)) /\ Len(group(y)) <= BucketMax}
  IN  IF ok = {} THEN <<>>
      ELSE Take(Sort("x", group(CHOOSE y \in ok : \A z \in ok : z <= y)),
                MaxStarters)

BlindScan(raw_items) ==
  LET row == BlindRow(raw_items)
  IN  IF AnyIntRaises(row) THEN [raises |-> TRUE, value |-> <<>>]
      ELSE [raises |-> FALSE, value |-> Ints(row)]

\* tiers 1 and 2: the numeric tokens in the window under the header
HeaderCandidates(all_flat, header_y) ==
  Sort("x", SelectSeq(all_flat, LAMBDA i :
      header_y - HeaderFar < i.y /\ i.y < header_y - HeaderNear
      /\ IsDigit(i.text)))

HeaderScan(all_flat, header_y) ==
  LET candidates == HeaderCandidates(all_flat, header_y)
  IN  IF AnyIntRaises(candidates) THEN [raises |-> TRUE, value |-> <<>>]
      ELSE [raises |-> FALSE, value |-> Take(Ints(candidates), MaxStarters)]

HeaderY(all_flat) ==
  IF FirstRomanY(all_flat) # Absent THEN FirstRomanY(all_flat)
  ELSE FirstFormationY(all_flat)

\* a header whose window holds no numeric token handed on to the blind scan
extract_starters_strict_FallThrough(lines, raw_items) ==
  LET all_flat == Flatten(lines, 1)
      header_y == HeaderY(all_flat)
  IN  IF header_y = Absent \/ HeaderCandidates(all_flat, header_y[1]) = <<>>
      THEN BlindScan(raw_items)
      ELSE HeaderScan(all_flat, header_y[1])

extract_starters_strict(lines, raw_items) ==
  LET all_flat == Flatten(lines, 1)
      header_y == HeaderY(all_flat)
  IN  IF header_y = Absent THEN BlindScan(raw_items)
      ELSE HeaderScan(all_flat, header_y[1])

(***************************************************************************)
(* extract_rotations_spatial                                               *)
(***************************************************************************)
\* one line, left to right: the rotation index and the candidate points
RECURSIVE WalkLine(_, _, _, _)
WalkLine(line, i, rot_idx, points) ==
  IF i > Len(line) THEN [raises |-> FALSE, rot_idx |-> rot_idx, points |-> points]
  ELSE LET txt == line[i].text
       IN  IF rot_idx = None /\ IsRotationIndex(txt)
           THEN WalkLine(line, i + 1, txt, points)
           ELSE IF rot_idx # None /\ IsDigit(txt)
                THEN IF IntRaises(txt)
                     THEN [raises |-> TRUE, rot_idx |-> rot_idx, points |-> points]
                     ELSE IF int(txt) <= MaxPoint
                          THEN WalkLine(line, i + 1, rot_idx, Append(points, int(txt)))
                          ELSE WalkLine(line, i + 1, rot_idx, points)
                ELSE WalkLine(line, i + 1, rot_idx, points)

\* the filter left out: every candidate point kept
Increasing_Unfiltered(points, i, mx) == points

\* "Filtrer croissant": keep a point only if it exceeds the running maximum
RECURSIVE Increasing(_, _, _)
Increasing(points, i, mx) ==
  IF i > Len(points) THEN <<>>
  ELSE IF points[i] > mx
       THEN <<points[i]>> \o Increasing(points, i + 1, points[i])
       ELSE Increasing(points, i + 1, mx)

NoRotations == [k \in {} |-> <<>>]

RECURSIVE Rotations(_, _, _)
Rotations(lines, i, rotations) ==
  IF i > Len(lines) THEN [raises |-> FALSE, value |-> rotations]
  ELSE LET w == WalkLine(Sort("x", lines[i]), 1, None, <<>>)
       IN  IF w.raises THEN [raises |-> TRUE, value |-> rotations]
           ELSE IF w.rot_idx # None /\ w.points # <<>>
                THEN Rotations(lines, i + 1,
                       [k \in DOMAIN rotations \cup {w.rot_idx} |->
                          IF k = w.rot_idx THEN Increasing(w.points, 1, -1)
                          ELSE rotations[k]])
                ELSE Rotations(lines, i + 1, rotations)

extract_rotations_spatial(lines) == Rotations(lines, 1, NoRotations)

(***************************************************************************)
(* get_max_score                                                           *)
(***************************************************************************)
Max(S) == CHOOSE m \in S : \A n \in S : n <= m

get_max_score(rotations) ==
  Max({0} \cup UNION {{rotations[k][j] : j \in 1..Len(rotations[k])} :
                        k \in DOMAIN rotations})

(***************************************************************************)
(* extract_set_data                                                        *)
(***************************************************************************)
HomeBox(anchor) ==
  [min |-> IF anchor.x < PageDivider THEN 0 ELSE PageDivider,
   max |-> anchor.x - HomeMargin]

\* the away zone starting one unit further left
AwayBox_Wider(anchor) ==
  [min |-> anchor.x + AwayMargin - 1, max |-> anchor.x + AwayWidth]

AwayBox(anchor) ==
  [min |-> anchor.x + AwayMargin, max |-> anchor.x + AwayWidth]

InWindow(anchor, i) ==
  anchor.y - BoxBottom < i.y /\ i.y < anchor.y + BoxTop

\* the bounds of a box taken as part of it
InBox_Closed(box, i) == box.min <= i.x /\ i.x <= box.max

InBox(box, i) == box.min < i.x /\ i.x < box.max

\* the home zone not bounded by the anchor's x
HomeItems_NoDivider(items, anchor) ==
  SelectSeq(items, LAMBDA i : InWindow(anchor, i))

SetItems(items, anchor) == SelectSeq(items, LAMBDA i : InWindow(anchor, i))

HomeItems(items, anchor) ==
  SelectSeq(SetItems(items, anchor), LAMBDA i : InBox(HomeBox(anchor), i))

AwayItems(items, anchor) ==
  SelectSeq(SetItems(items, anchor), LAMBDA i : InBox(AwayBox(anchor), i))

\* home_data / away_data: the starters, then the rotations
TeamResult(st, ro) ==
  [raises |-> st.raises \/ ro.raises,
   value |-> [starters |-> st.value, rotations |-> ro.value]]

\* r is what items_to_lines leaves: the zone's list, sorted in place before
\* extract_starters_strict reads it as raw_items, and its lines
TeamLines(r) ==
  TeamResult(extract_starters_strict(r.lines, r.items),
             extract_rotations_spatial(r.lines))

TeamData(zone_items) == TeamLines(items_to_lines(zone_items))

\* the fallback taken whatever the two maxima sum to
FallbackScore_NoThreshold(final_score, home_data, away_data) ==
  IF final_score = "0-0"
  THEN FormatScore(get_max_score(home_data.rotations),
                   get_max_score(away_data.rotations))
  ELSE final_score

TableScore(meta, set_num) ==
  IF set_num <= Len(meta.setScores) THEN meta.setScores[set_num] ELSE "0-0"

FallbackScore(final_score, home_data, away_data) ==
  IF final_score = "0-0"
  THEN LET h_max == get_max_score(home_data.rotations)
           a_max == get_max_score(away_data.rotations)
       IN  IF h_max + a_max > MinFallbackTotal
           THEN FormatScore(h_max, a_max) ELSE final_score
  ELSE final_score

\* "Fix Set 5"
FixSet5(final_score, meta, set_num) ==
  IF set_num = DecidingSet /\ AwayPart(final_score) > DecidingAwayLimit
     /\ \E w \in 1..Len(meta.winner) : ContainsLescar(meta.winner[w])
  THEN "10-15" ELSE final_score

FinalScore(meta, set_num, home_data, away_data) ==
  FixSet5(FallbackScore(TableScore(meta, set_num), home_data, away_data),
          meta, set_num)

SetRecord(meta, set_num, home, away) ==
  IF home.raises \/ away.raises THEN [raises |-> TRUE, value |-> None]
  ELSE [raises |-> FALSE,
        value |-> [setNumber |-> set_num,
                   score |-> FinalScore(meta, set_num, home.value, away.value),
                   home |-> home.value,
                   away |-> away.value]]

extract_set_data(items, meta, anchor, set_num) ==
  SetRecord(meta, set_num, TeamData(HomeItems(items, anchor)),
            TeamData(AwayItems(items, anchor)))

(***************************************************************************)
(* parse                                                                   *)
(***************************************************************************)
\* match.group(1)
StartOf(t) ==
  CASE t = "Début: 14:00" -> "14:00"
    [] t = "Début 15h30" -> "15h30"
    [] OTHER -> t

IsAnchorToken(i) == ContainsDebut(i.text) /\ HasTime(i.text)

FoundAnchors(items) ==
  LET s == SelectSeq(items, IsAnchorToken)
  IN  [k \in 1..Len(s) |-> [x |-> s[k].x, y |-> s[k].y, start |-> StartOf(s[k].text)]]

\* the anchors left in the order of the tokens
SortedAnchors_Unsorted(items) == FoundAnchors(items)

\* anchors.sort(key=lambda k: -k['y'])
SortedAnchors(items) == Sort("-y", FoundAnchors(items))

\* sets_data, one extract_set_data per anchor; a ValueError ends the loop
ParseResult(items, as, sets) ==
  [raises |-> \E i \in 1..Len(sets) : sets[i].raises,
   all_items |-> items,
   anchors |-> as,
   sets_data |-> [i \in 1..Len(sets) |-> sets[i].value]]

SetsOf(items, meta, as) ==
  ParseResult(items, as,
              [i \in 1..Len(as) |-> extract_set_data(items, meta, as[i], i)])

\* set_items, home_items and away_items are new lists: sorting them leaves
\* self.all_items as it was
parse(items, meta) == SetsOf(items, meta, SortedAnchors(items))

(***************************************************************************)
(* The token lists a script run is given: a sheet, followed by up to       *)
(* MaxExtra more tokens of that sheet's pool.                              *)
(***************************************************************************)
Debut == "Début: 14:00"

\* one anchor, a header "I" and the six numerals 1..6 spread over x = 260..400
RoundTripSheet ==
  <<Tok(Debut, 250, 700), Tok("I", 260, 650),
    Tok("1", 260, 630), Tok("2", 288, 630), Tok("3", 316, 630),
    Tok("4", 344, 630), Tok("5", 372, 630), Tok("6", 400, 630)>>

\* the same row, header and numerals strictly right of x = 260
InnerSheet ==
  <<Tok(Debut, 250, 700), Tok("I", 261, 650),
    Tok("1", 261, 630), Tok("2", 288, 630), Tok("3", 316, 630),
    Tok("4", 344, 630), Tok("5", 372, 630), Tok("6", 400, 630)>>

\* a footer line 12, 25, 1
FooterSheet == <<Tok("12", 50, 150), Tok("25", 70, 150), Tok("1", 90, 150)>>

\* no header: six numerals in one y-bucket, x order differing from value order
BlindSheet ==
  <<Tok(Debut, 250, 700),
    Tok("4", 330, 630), Tok("7", 390, 631), Tok("9", 420, 629),
    Tok("10", 270, 630), Tok("12", 300, 632), Tok("15", 360, 628)>>

\* one set with a rotation line on each side of the anchor
RotationSheet ==
  <<Tok(Debut, 250, 700),
    Tok("7", 80, 600), Tok("2", 100, 600), Tok("5", 120, 600),
    Tok("3", 140, 600), Tok("41", 160, 600), Tok("9", 180, 600),
    Tok("4", 300, 600), Tok("6", 320, 600)>>

\* five sets, supplied bottom-up, with the score table in the footer
FiveSetSheet ==
  <<Tok(Debut, 250, 700), Tok(Debut, 250, 750), Tok(Debut, 250, 800),
    Tok(Debut, 250, 850), Tok(Debut, 250, 900),
    Tok("25", 50, 150), Tok("20", 90, 150), Tok("22", 50, 140), Tok("25", 90, 140),
    Tok("25", 50, 130), Tok("18", 90, 130), Tok("19", 50, 120), Tok("25", 90, 120),
    Tok("13", 50, 110), Tok("25", 90, 110),
    Tok("Vainqueur:", 700, 100)>>

\* five sets with no score table: the scores come from the rotations
FiveSetBareSheet ==
  <<Tok(Debut, 250, 900), Tok(Debut, 250, 850), Tok(Debut, 250, 800),
    Tok(Debut, 250, 750), Tok(Debut, 250, 700),
    Tok("1", 300, 600), Tok("25", 320, 600),
    Tok("Vainqueur:", 700, 100)>>

\* one set of a two-column layout, the anchor right of the page divider: a
\* rotation line on each side of it, and a lone numeral just inside the top
\* and the bottom of its window
ZoneSheet ==
  <<Tok("Début 15h30", 350, 500),
    Tok("2", 310, 400), Tok("7", 320, 400), Tok("12", 330, 400),
    Tok("3", 400, 400), Tok("8", 420, 400),
    Tok("9", 420, 559), Tok("9", 420, 121)>>

\* tokens on the bounds of the zones of that anchor, and one unit inside
ZonePool ==
  {Tok("1", 300, 400), Tok("1", 301, 400), Tok("15", 345, 400), Tok("15", 344, 400),
   Tok("1", 360, 400), Tok("1", 361, 400), Tok("9", 850, 400), Tok("9", 849, 400),
   Tok("4", 400, 560), Tok("4", 400, 559), Tok("5", 400, 120), Tok("5", 400, 121)}

WinnerPool == {Tok("LESCAR", 760, 100), Tok("PAU", 760, 100), Tok("3/2", 820, 100)}

Sheets ==
  <<[base |-> <<>>,
     pool |-> {Tok(Debut, 250, 700), Tok("Début 15h30", 350, 300),
               Tok("Début", 250, 500), Tok("14:00", 250, 400),
               Tok("PAU", 100, 650), Tok("12", 50, 150), Tok("8", 90, 150),
               Tok("²", 90, 152), Tok("3", 400, 250), Tok("Vainqueur:", 700, 100),
               Tok("3/1", 820, 100)}],
    [base |-> RoundTripSheet,
     pool |-> {Tok("3", 300, 630), Tok("7", 430, 630), Tok("8", 259, 630),
               Tok("9", 270, 645), Tok("9", 270, 610), Tok("I", 261, 652),
               Tok("²", 310, 630), Tok("Formation", 300, 660)}],
    [base |-> InnerSheet,
     pool |-> {Tok("3", 300, 630), Tok("7", 430, 630), Tok("8", 245, 630),
               Tok("8", 240, 630), Tok("I", 240, 650), Tok("9", 270, 645),
               Tok("9", 270, 609), Tok("²", 310, 615)}],
    [base |-> FooterSheet,
     pool |-> {Tok("30", 40, 150), Tok("41", 30, 150), Tok("9", 95, 144),
               Tok("9", 20, 156), Tok("25", 50, 100), Tok("23", 90, 100),
               Tok("14", 10, 200), Tok("14", 600, 150), Tok("²", 60, 150),
               Tok("PAU", 100, 150)}],
    [base |-> BlindSheet,
     pool |-> {Tok("4", 310, 630), Tok("2", 280, 633), Tok("3", 440, 627),
               Tok("8", 400, 640), Tok("I", 300, 660), Tok("Formation", 300, 655),
               Tok("I", 300, 690), Tok("Formation", 300, 705),
               Tok("²", 265, 630), Tok("5", 260, 630)}],
    [base |-> RotationSheet,
     pool |-> {Tok("12", 200, 600), Tok("0", 110, 600), Tok("1", 60, 603),
               Tok("1", 0, 600),
               Tok("8", 340, 600), Tok("5", 350, 597), Tok("²", 190, 600),
               Tok("3", 100, 500), Tok("11", 120, 500), Tok("7", 140, 500)}],
    [base |-> ZoneSheet, pool |-> ZonePool],
    [base |-> FiveSetSheet, pool |-> WinnerPool],
    [base |-> FiveSetBareSheet,
     pool |-> WinnerPool \cup {Tok("2", 100, 600), Tok("14", 120, 600),
                               Tok("20", 340, 600)}]>>

Extras(pool) == UNION {[1..n -> pool] : n \in 0..MaxExtra}

(***************************************************************************)
(* The script run (src/app.py, "MAIN"): raw_data, then the parser's        *)
(* construction, then parse().  A ValueError ends the run.                 *)
(***************************************************************************)
Init ==
  /\ \E s \in 1..Len(Sheets) : \E e \in Extras(Sheets[s].pool) :
       all_items = Sheets[s].base \o e
  /\ pc = "start"
  /\ metadata = Absent
  /\ anchors = None
  /\ sets_data = None
  /\ runs = 0
  /\ last = None

\* parser = VolleyballSheetParser(raw_data)
Constructing(r) ==
  /\ all_items' = r.all_items
  /\ pc' = IF r.raises THEN "init_failed" ELSE "constructed"
  /\ metadata' = IF r.raises THEN metadata ELSE r.meta

NewParser ==
  /\ pc = "start"
  /\ Constructing(parse_match_summary(all_items))
  /\ UNCHANGED <<anchors, sets_data, runs, last>>

\* sets_data = parser.parse()
Parsing(r) ==
  /\ all_items' = r.all_items
  /\ pc' = IF r.raises THEN "parse_failed" ELSE "parsed"
  /\ anchors' = r.anchors
  /\ sets_data' = IF r.raises THEN sets_data ELSE r.sets_data

Parse ==
  /\ pc = "constructed"
  /\ Parsing(parse(all_items, metadata))
  /\ UNCHANGED <<metadata, runs, last>>

\* the script runs again on the same raw_data; last is how the run before
\* it ended, and its metadata and sets_data stay until they are replaced
Rerun ==
  /\ pc \in {"parsed", "init_failed", "parse_failed"}
  /\ runs < MaxRuns
  /\ pc' = "start"
  /\ runs' = runs + 1
  /\ last' = pc
  /\ UNCHANGED <<all_items, metadata, anchors, sets_data>>

Next == NewParser \/ Parse \/ Rerun

Spec == Init /\ [][Next]_vars

(***************************************************************************)
(* Properties.                                                             *)
(***************************************************************************)
Teams == {"home", "away"}

Team(rec, t) == IF t = "home" THEN rec.home ELSE rec.away

Parsed == pc = "parsed"

Records == 1..Len(sets_data)

NumeralValue(tok) == CHOOSE n \in 0..MaxNum : ToString(n) = tok.text

IsNumeral(tok) == \E n \in 0..MaxNum : ToString(n) = tok.text

SetStartTokens == {k \in 1..Len(all_items) :
                     all_items[k].text \in {"Début: 14:00", "Début 15h30"}}

\* C1: in every SetRecord that parse() produces, for the home and the away
\* team, every rotation key is one of "1".."6" and every rotation point list
\* is strictly increasing with every value <= 40.
C1_RotationsWellFormed ==
  Parsed => \A i \in Records : \A t \in Teams :
    LET r == Team(sets_data[i], t).rotations
    IN  /\ DOMAIN r \subseteq {"1", "2", "3", "4", "5", "6"}
        /\ \A k \in DOMAIN r : \A j \in 1..Len(r[k]) :
             /\ r[k][j] <= 40
             /\ j > 1 => r[k][j - 1] < r[k][j]

\* a line 7 2 5 3 41 9: key "2", the 3 and the 41 dropped
C1_Witness ==
  /\ Parsed
  /\ all_items = RotationSheet
  /\ sets_data[1].home.rotations = ("2" :> <<5, 9>>)

\* the largest point of a team's rotations, 0 when there is none
TopPoint(rotations) ==
  LET ps == UNION {{rotations[k][j] : j \in 1..Len(rotations[k])} :
                     k \in DOMAIN rotations}
  IN  IF ps = {} THEN 0 ELSE CHOOSE m \in ps : \A n \in ps : n <= m

DerivedScore(rec) ==
  FormatScore(TopPoint(rec.home.rotations), TopPoint(rec.away.rotations))

HasEntry(n) == n <= Len(metadata.setScores)

\* C2 as stated: the score of set n is the n-th entry of the set-score table
\* when there is one, and otherwise "<max home point>-<max away point>".
C2_ScoreTableElseDerived ==
  Parsed => \A i \in Records :
    LET rec == sets_data[i]
    IN  rec.score = IF HasEntry(rec.setNumber)
                    THEN metadata.setScores[rec.setNumber]
                    ELSE DerivedScore(rec)

\* the score before the set-5 rule: the table entry, else the derived score
\* when the two maxima sum to more than 10, else "0-0"
ResolvedScore(rec) ==
  IF HasEntry(rec.setNumber) THEN metadata.setScores[rec.setNumber]
  ELSE IF TopPoint(rec.home.rotations) + TopPoint(rec.away.rotations) > 10
       THEN DerivedScore(rec) ELSE "0-0"

AwayOver20(score) ==
  \E h \in 0..MaxNum : \E a \in 21..MaxNum : score = FormatScore(h, a)

WinnerIsLescar == \E w \in 1..Len(metadata.winner) : metadata.winner[w] = "LESCAR"

\* C2 amended: the score of set n is the n-th table entry when there is one,
\* and otherwise the derived score if the two maxima sum to more than 10 and
\* "0-0" if not; except that for set 5, when that score's away part exceeds
\* 20 and the winner text contains "LESCAR", the score is "10-15".
C2_ScoreResolution ==
  Parsed => \A i \in Records :
    LET rec == sets_data[i]
    IN  rec.score = IF rec.setNumber = 5 /\ AwayOver20(ResolvedScore(rec))
                       /\ WinnerIsLescar
                    THEN "10-15" ELSE ResolvedScore(rec)

\* five sets with a five-line table, the winner LESCAR: sets 1..4 carry their
\* table entries and set 5 is overridden
C2_Witness ==
  /\ Parsed
  /\ Len(sets_data) = 5
  /\ Len(metadata.setScores) = 5
  /\ sets_data[1].score = metadata.setScores[1]
  /\ metadata.setScores[5] = "13-25"
  /\ sets_data[5].score = "10-15"

\* C3: every starters list has at most 6 entries, each the value of a numeric
\* token inside the set's vertical window and on that team's side of the
\* anchor's x.
C3_StartersFromOwnZone ==
  Parsed => \A i \in Records : \A t \in Teams :
    LET st == Team(sets_data[i], t).starters
        a == anchors[i]
    IN  /\ Len(st) <= 6
        /\ \A j \in 1..Len(st) : \E k \in 1..Len(all_items) :
             LET tok == all_items[k]
             IN  /\ IsNumeral(tok)
                 /\ NumeralValue(tok) = st[j]
                 /\ a.y - 380 < tok.y /\ tok.y < a.y + 60
                 /\ IF t = "home" THEN tok.x < a.x ELSE tok.x > a.x

\* home starters found while numeric tokens lie across the divider
C3_Witness ==
  /\ Parsed
  /\ \E i \in Records :
       /\ sets_data[i].home.starters # <<>>
       /\ \E k \in 1..Len(all_items) :
            /\ IsNumeral(all_items[k])
            /\ all_items[k].x > anchors[i].x
            /\ anchors[i].y - 380 < all_items[k].y
            /\ all_items[k].y < anchors[i].y + 60

\* C4: the entries of a non-empty starters list are pairwise distinct.
C4_StartersDistinct ==
  Parsed => \A i \in Records : \A t \in Teams :
    LET st == Team(sets_data[i], t).starters
    IN  \A j, k \in 1..Len(st) : j # k => st[j] # st[k]

\* C5: one SetRecord per set-start token, numbered 1..N in list order; the
\* record of a higher anchor has the smaller set number; with no set-start
\* token parse() returns the empty list and does not raise.
C5_OneRecordPerAnchor ==
  /\ Parsed =>
       /\ Len(sets_data) = Cardinality(SetStartTokens)
       /\ Len(anchors) = Len(sets_data)
       /\ \A i \in Records : sets_data[i].setNumber = i
       /\ \A k \in SetStartTokens : \E i \in Records :
            anchors[i].x = all_items[k].x /\ anchors[i].y = all_items[k].y
       /\ \A i, j \in Records :
            anchors[i].y > anchors[j].y
              => sets_data[i].setNumber < sets_data[j].setNumber
  /\ (pc \in {"parsed", "parse_failed"} /\ SetStartTokens = {})
       => pc = "parsed" /\ sets_data = <<>>

\* several anchors, supplied bottom-up
C5_Witness ==
  /\ Parsed
  /\ Len(sets_data) >= 2
  /\ \E k, l \in SetStartTokens : k < l /\ all_items[k].y < all_items[l].y

C7_RerunIdentical ==
  [][/\ all_items' = all_items
     /\ (runs >= 1 /\ pc = "start")
          => IF last = "init_failed" THEN pc' = "init_failed"
             ELSE pc' = "constructed" /\ metadata' = metadata
     /\ (runs >= 1 /\ pc = "constructed")
          => IF last = "parse_failed" THEN pc' = "parse_failed"
             ELSE pc' = "parsed" /\ sets_data' = sets_data /\ anchors' = anchors
    ]_vars

\* a second run has ended on a token list that is not in (-y, x) order
C7_Witness ==
  /\ runs >= 1
  /\ Parsed
  /\ sets_data # <<>>
  /\ \E k \in 1..(Len(all_items) - 1) : all_items[k].y < all_items[k + 1].y

Constructed == pc \in {"constructed", "parsed"}

FooterTokens == SelectSeq(all_items, LAMBDA t : t.y < 200 /\ t.x < 600)

\* the positions of a line that hold a numeral <= 40
ScoreNums(line) ==
  {j \in 1..Len(line) : IsNumeral(line[j]) /\ NumeralValue(line[j]) <= 40}

Leftmost(line, a) == \A j \in ScoreNums(line) : line[a].x <= line[j].x

Rightmost(line, b) == \A j \in ScoreNums(line) : line[j].x <= line[b].x

\* e is "<first>-<last>" of the line, one of the two at least 10
LineYields(line, e) ==
  \E a, b \in ScoreNums(line) :
    /\ a # b /\ Leftmost(line, a) /\ Rightmost(line, b)
    /\ e = FormatScore(NumeralValue(line[a]), NumeralValue(line[b]))
    /\ NumeralValue(line[a]) >= 10 \/ NumeralValue(line[b]) >= 10

\* the line has fewer than 2 such numerals, or a first and a last both < 10
LineYieldsNothing(line) ==
  \/ Cardinality(ScoreNums(line)) < 2
  \/ \E a, b \in ScoreNums(line) :
       /\ a # b /\ Leftmost(line, a) /\ Rightmost(line, b)
       /\ NumeralValue(line[a]) < 10 /\ NumeralValue(line[b]) < 10

\* scores, from entry n on, are what the lines, from line i on, yield in order
RECURSIVE TableOf(_, _, _, _)
TableOf(lines, i, scores, n) ==
  IF i > Len(lines) THEN n > Len(scores)
  ELSE \/ /\ n <= Len(scores)
          /\ LineYields(lines[i], scores[n])
          /\ TableOf(lines, i + 1, scores, n + 1)
       \/ /\ LineYieldsNothing(lines[i])
          /\ TableOf(lines, i + 1, scores, n)

\* C8: setScores is built from the tokens with y < 200 and x < 600 alone: the
\* reconstructed footer lines, top to bottom, each give the entry
\* "<leftmost>-<rightmost>" of their numerals <= 40 if and only if there are
\* at least 2 and one of the two is >= 10; the line 12, 25, 1 gives "12-1".
C8_SetScoreTable ==
  Constructed =>
    /\ TableOf(items_to_lines(FooterTokens).lines, 1, metadata.setScores, 1)
    /\ all_items = FooterSheet => metadata.setScores = <<"12-1">>

C8_Witness ==
  /\ Constructed
  /\ all_items = FooterSheet
  /\ metadata.setScores # <<>>

ZoneOf(t, anchor) ==
  IF t = "home" THEN HomeItems(all_items, anchor) ELSE AwayItems(all_items, anchor)

NoHeader(zone) ==
  \A k \in 1..Len(zone) :
    zone[k].text \notin {"I", "II", "III", "IV", "V", "VI", "Formation", "Formation:"}

\* numeric is what str.isdigit() accepts: a numeral, or the superscript digit
IsNumericToken(t) == IsNumeral(t) \/ t.text = "²"

\* the numeric tokens of the zone in the 5-unit bucket b
InBucket(zone, b) ==
  SelectSeq(zone, LAMBDA t : IsNumericToken(t) /\ Bucket(t.y) = b)

Accepted(zone, b) == Len(InBucket(zone, b)) \in 5..7

Buckets(zone) == {Bucket(zone[k].y) : k \in 1..Len(zone)}

\* st is the row ordered by x and cut to 6: its j-th entry is the value of a
\* token with fewer than j tokens left of it and at least j not right of it
RowByX(row, st) ==
  /\ Len(st) = IF Len(row) > 6 THEN 6 ELSE Len(row)
  /\ \A j \in 1..Len(st) : \E p \in 1..Len(row) :
       /\ IsNumeral(row[p])
       /\ NumeralValue(row[p]) = st[j]
       /\ Cardinality({q \in 1..Len(row) : row[q].x < row[p].x}) < j
       /\ Cardinality({q \in 1..Len(row) : row[q].x <= row[p].x}) >= j

\* C9: in a zone with no Roman-numeral and no "Formation" token the starters
\* are the topmost bucket of 5 to 7 numeric tokens, ordered by x and cut to
\* 6 (empty when there is no such bucket); the six numerals of the blind
\* sheet come back in the order of their x.
C9_BlindFallback ==
  /\ Parsed => \A i \in Records : \A t \in Teams :
       LET zone == ZoneOf(t, anchors[i])
           st == Team(sets_data[i], t).starters
           ok == {b \in Buckets(zone) : Accepted(zone, b)}
       IN  NoHeader(zone) =>
             IF ok = {} THEN st = <<>>
             ELSE RowByX(InBucket(zone, CHOOSE b \in ok : \A c \in ok : c <= b), st)
  /\ (Parsed /\ all_items = BlindSheet)
       => sets_data[1].away.starters = <<10, 12, 4, 15, 7, 9>>

C9_Witness ==
  /\ Parsed
  /\ all_items = BlindSheet
  /\ Len(sets_data[1].away.starters) = 6

NoSetStart(items) ==
  \A k \in 1..Len(items) : items[k].text \notin {"Début: 14:00", "Début 15h30"}

\* C10: what the caller gets for an empty token list differs from what it
\* gets for a non-empty token list without a set-start token.
C10_EmptyInputExplicit ==
  (Parsed /\ all_items # <<>> /\ NoSetStart(all_items))
    => <<metadata, sets_data>>
         # <<parse_match_summary(<<>>).meta,
             parse(<<>>, parse_match_summary(<<>>).meta).sets_data>>

\* the token list with the tokens at positions k and k + 1 exchanged
Swap(s, k) ==
  [i \in 1..Len(s) |-> IF i = k THEN s[k + 1] ELSE IF i = k + 1 THEN s[k] ELSE s[i]]

\* how a script run on items ends, and what it hands back
RunOf(s, items) ==
  IF s.raises THEN <<"init_failed">>
  ELSE IF parse(items, s.meta).raises THEN <<"parse_failed", s.meta>>
       ELSE <<"parsed", s.meta, parse(items, s.meta).sets_data>>

Outcome(items) == RunOf(parse_match_summary(items), items)

\* C11: the MatchMetadata and the SetRecords do not depend on the order of
\* the tokens: the same token list with two neighbouring tokens exchanged (a
\* permutation of it) gives the same result.
C11_OrderIrrelevant ==
  Parsed => \A k \in 1..(Len(all_items) - 1) :
    Outcome(Swap(all_items, k)) = <<"parsed", metadata, sets_data>>

\* the token lists that the run has handed to items_to_lines: the footer
\* tokens, and the home and the away tokens of every anchor
Reconstructed ==
  IF Parsed
  THEN {FooterTokens} \cup {ZoneOf(t, anchors[i]) : t \in Teams, i \in Records}
  ELSE IF Constructed THEN {FooterTokens} ELSE {}

\* the positions, in the concatenation of the lines, where a line starts
Starts(lines) ==
  {Len(Flatten(SubSeq(lines, 1, i - 1), 1)) + 1 : i \in 1..Len(lines)}

\* the start of the line that holds position j
LineStart(lines, j) ==
  CHOOSE s \in Starts(lines) : s <= j /\ \A r \in Starts(lines) : r <= j => r <= s

Occurrences(s, e) == Cardinality({i \in 1..Len(s) : s[i] = e})

\* flat holds the tokens of input, in the order of (-y, x)
SortedInput(input, flat) ==
  /\ Len(flat) = Len(input)
  /\ \A i \in 1..Len(input) : Occurrences(flat, input[i]) = Occurrences(input, input[i])
  /\ \A j \in 2..Len(flat) :
       \/ flat[j - 1].y > flat[j].y
       \/ flat[j - 1].y = flat[j].y /\ flat[j - 1].x <= flat[j].x

\* the lines are a partition of the sorted input; none is empty
Partition(input, lines) ==
  /\ \A i \in 1..Len(lines) : lines[i] # <<>>
  /\ SortedInput(input, Flatten(lines, 1))
  /\ input = <<>> => lines = <<>>
  /\ Len(input) = 1 => lines = <<input>>

\* C12 as stated: items_to_lines partitions its input into non-empty lines
\* whose concatenation is the input sorted by (-y, x); a line starts at a
\* token exactly when its y differs by more than 5 from the y of the token
\* before it; no token gives no line, one token gives one line.
C12_SplitAtGaps ==
  \A input \in Reconstructed :
    LET lines == items_to_lines(input).lines
        flat == Flatten(lines, 1)
    IN  /\ Partition(input, lines)
        /\ \A j \in 2..Len(flat) :
             j \in Starts(lines) <=> Abs(flat[j].y - flat[j - 1].y) > 5

\* C12 amended: the same, but a line starts at a token exactly when its y
\* differs by more than 5 from the y of the first token of the line that
\* holds the token before it.
C12_SplitFromLineStart ==
  \A input \in Reconstructed :
    LET lines == items_to_lines(input).lines
        flat == Flatten(lines, 1)
    IN  /\ Partition(input, lines)
        /\ \A j \in 2..Len(flat) :
             j \in Starts(lines)
               <=> Abs(flat[j].y - flat[LineStart(lines, j - 1)].y) > 5

\* a line starts at a token whose y is within 5 of the token before it
C12_Witness ==
  \E input \in Reconstructed :
    LET lines == items_to_lines(input).lines
        flat == Flatten(lines, 1)
    IN  \E j \in 2..Len(flat) :
          j \in Starts(lines) /\ Abs(flat[j].y - flat[j - 1].y) <= 5

\* the left bound of the home zone
Lo(a) == IF a.x < 300 THEN 0 ELSE 300

\* the tokens inside the window and the team's interval, bounds included
ClosedZone(t, a) ==
  SelectSeq(all_items, LAMBDA k :
    /\ a.y - 380 <= k.y /\ k.y <= a.y + 60
    /\ IF t = "home" THEN Lo(a) <= k.x /\ k.x <= a.x - 5
       ELSE a.x + 10 <= k.x /\ k.x <= a.x + 500)

\* the same, bounds excluded
OpenZone(t, a) ==
  SelectSeq(all_items, LAMBDA k :
    /\ a.y - 380 < k.y /\ k.y < a.y + 60
    /\ IF t = "home" THEN Lo(a) < k.x /\ k.x < a.x - 5
       ELSE a.x + 10 < k.x /\ k.x < a.x + 500)

RomanYs(zone) ==
  {zone[k].y : k \in {j \in 1..Len(zone) :
                        zone[j].text \in {"I", "II", "III", "IV", "V", "VI"}}}

FormationYs(zone) ==
  {zone[k].y : k \in {j \in 1..Len(zone) :
                        zone[j].text \in {"Formation", "Formation:"}}}

\* the numeric tokens of the zone in the window under a header at hy
Below(zone, hy) ==
  SelectSeq(zone, LAMBDA t : IsNumericToken(t) /\ hy - 40 < t.y /\ t.y < hy - 5)

\* what each tier finds in the zone, <<>> when it finds nothing: the row
\* under the topmost Roman numeral, the row under the topmost "Formation"
\* label lowered by 15, the topmost bucket of 5 to 7 numeric tokens
Tier1Row(zone) ==
  IF RomanYs(zone) = {} THEN <<>> ELSE Below(zone, Max(RomanYs(zone)))

Tier2Row(zone) ==
  IF FormationYs(zone) = {} THEN <<>> ELSE Below(zone, Max(FormationYs(zone)) - 15)

Tier3Row(zone) ==
  LET ok == {b \in Buckets(zone) : Accepted(zone, b)}
  IN  IF ok = {} THEN <<>> ELSE InBucket(zone, Max(ok))

\* C14 as stated: the starters are those of the header tier; when that tier
\* yields none, those of the "Formation" tier; when that yields none too,
\* those of the blind tier; the list is empty only when all three yield none.
C14_FallThrough ==
  Parsed => \A i \in Records : \A t \in Teams :
    LET zone == ZoneOf(t, anchors[i])
        st == Team(sets_data[i], t).starters
    IN  IF Tier1Row(zone) # <<>> THEN RowByX(Tier1Row(zone), st)
        ELSE IF Tier2Row(zone) # <<>> THEN RowByX(Tier2Row(zone), st)
        ELSE IF Tier3Row(zone) # <<>> THEN RowByX(Tier3Row(zone), st)
        ELSE st = <<>>

\* C14 amended: the tier is chosen by the header that is present, not by
\* what a tier yields: with a Roman numeral in the zone the starters are
\* those of the header tier, empty or not; with none but a "Formation" token,
\* those of the "Formation" tier, empty or not; only with neither, those of
\* the blind tier, empty when no bucket qualifies.
C14_TierByHeader ==
  Parsed => \A i \in Records : \A t \in Teams :
    LET zone == ZoneOf(t, anchors[i])
        st == Team(sets_data[i], t).starters
    IN  IF RomanYs(zone) # {} THEN RowByX(Tier1Row(zone), st)
        ELSE IF FormationYs(zone) # {} THEN RowByX(Tier2Row(zone), st)
        ELSE IF Tier3Row(zone) # <<>> THEN RowByX(Tier3Row(zone), st)
        ELSE st = <<>>

\* a Roman numeral with no numeric token under it, an empty starters list,
\* and a row that the blind tier would have taken
C14_Witness ==
  /\ Parsed
  /\ \E i \in Records : \E t \in Teams :
       LET zone == ZoneOf(t, anchors[i])
       IN  /\ RomanYs(zone) # {}
           /\ Team(sets_data[i], t).starters = <<>>
           /\ Len(Tier3Row(zone)) = 6

====
